---- MODULE Spec2Model ----
(***************************************************************************)
(* Model of src/src/inventory.rs: the Inventory wrapper over the           *)
(* ISteamInventory subsystem.                                              *)
(*                                                                         *)
(* A caller thread runs get_all_items, consume_item and start_purchase.    *)
(* Every subsystem call is one step: its answer is chosen by the           *)
(* subsystem (nondeterministically), and the wrapper's code up to the next *)
(* subsystem call (or its return) is part of the same step.                *)
(***************************************************************************)
EXTENDS Integers, Sequences, FiniteSets, TLC

\* ------------------------------------------------------------------ bounds
\* Number of public operations started over one execution.
MaxOps == 2
\* Largest item count the subsystem reports for one result.
MaxItems == 2
\* Under ConcSpec a result the subsystem completes at all is reported OK
\* within this many polls.
ReadyBy == 2

\* ------------------------------------------------------- program constants
MAX_ATTEMPTS == 100
CALLBACK_BASE_ID == 1300
k_SteamInventoryResultInvalid == -1
k_uAPICallInvalid == 0

\* Threads that may call into the wrapper, and those that do under Spec
\* (one caller; the state is kept per thread).
Threads == {1, 2}
Callers == {1}

\* Handles the subsystem hands out (fresh, never reused).
Handles == 1 .. MaxOps

\* sys::SteamItemDetails_t values the subsystem writes into a buffer: the
\* i-th record of a result. Consecutive records differ, and so do the four
\* fields of each.
RawItem(i) ==
    IF i % 2 = 1
    THEN [m_itemId |-> 100, m_iDefinition |-> 5, m_unQuantity |-> 2, m_unFlags |-> 1]
    ELSE [m_itemId |-> 101, m_iDefinition |-> 6, m_unQuantity |-> 4, m_unFlags |-> 3]

\* sys::EResult codes GetResultStatus may report.
StatusCodes == {"k_EResultOK", "k_EResultPending", "k_EResultFail"}

\* Raw SteamInventoryStartPurchaseResult_t responses handed to the handler.
RawResponses ==
    { [m_result |-> "k_EResultOK", m_ulOrderID |-> 555, m_ulTransID |-> 999],
      [m_result |-> "k_EResultFail", m_ulOrderID |-> 555, m_ulTransID |-> 999] }

\* Item lists a caller passes to start_purchase.
PurchaseInputs ==
    { << >>,
      << [def |-> 42, quantity |-> 1], [def |-> 43, quantity |-> 2] >> }

\* (item_id, quantity) arguments a caller passes to consume_item.
ConsumeInputs ==
    { [item_id |-> 100, quantity |-> 1], [item_id |-> 101, quantity |-> 2] }

VARIABLES
    alive,          \* the Inventory value has not been dropped
    nOps,           \* operations started so far
    pc,             \* pc[t]: where thread t is inside the wrapper
    op,             \* op[t]: the operation thread t runs / ran last
    result_handle,  \* result_handle[t]: local of the running operation
    attempts,       \* attempts[t]: completed iterations of the polling loop
    items_count,    \* items_count[t]: local of get_result_items
    items,          \* items[t]: decoded records held before destroy_result
    ret,            \* ret[t]: value returned by the last finished operation
    calls,          \* calls[t]: subsystem calls of the running / last operation
    nextHandle,     \* subsystem: next handle to hand out
    live,           \* subsystem: handles handed out and not destroyed
    destroyCalls,   \* subsystem: DestroyResult calls received per handle
    staleUse,       \* subsystem: a call named a handle that was not live
    purchases,      \* one record per start_purchase call, in call order
    call_results    \* callback dispatcher: registered call-result handlers

vars == << alive, nOps, pc, op, result_handle, attempts, items_count, items,
           ret, calls, nextHandle, live, destroyCalls, staleUse, purchases,
           call_results >>

threadVars == << pc, op, result_handle, attempts, items_count, items, ret, calls >>
sysVars == << nextHandle, live, destroyCalls, staleUse >>
purchaseVars == << purchases, call_results >>

NoRet == [kind |-> "None"]
Ok(v) == [kind |-> "Ok", value |-> v]
Err(e) == [kind |-> "Err", error |-> e]

Init ==
    /\ alive = TRUE
    /\ nOps = 0
    /\ pc = [t \in Threads |-> "idle"]
    /\ op = [t \in Threads |-> "none"]
    /\ result_handle = [t \in Threads |-> k_SteamInventoryResultInvalid]
    /\ attempts = [t \in Threads |-> 0]
    /\ items_count = [t \in Threads |-> 0]
    /\ items = [t \in Threads |-> << >>]
    /\ ret = [t \in Threads |-> NoRet]
    /\ calls = [t \in Threads |-> << >>]
    /\ nextHandle = 1
    /\ live = {}
    /\ destroyCalls = [h \in Handles |-> 0]
    /\ staleUse = FALSE
    /\ purchases = << >>
    /\ call_results = {}

\* ------------------------------------------------------------- helpers
\* The handles the Inventory value itself keeps track of. The struct has two
\* fields, a raw interface pointer and an Arc to the client's inner state,
\* and no method stores a handle anywhere but in a local: it tracks none.
PendingHandleSet == {}

\* The first n records of a result, as the subsystem writes them.
RawItems(n) == [i \in 1 .. n |-> RawItem(i)]

\* std::mem::zeroed::<sys::SteamItemDetails_t>()
ZeroedItem == [m_itemId |-> 0, m_iDefinition |-> 0, m_unQuantity |-> 0, m_unFlags |-> 0]

\* vec![std::mem::zeroed(); n]
ZeroedVec(n) == [i \in 1 .. n |-> ZeroedItem]

\* Mutant: quantity and flags taken from each other's raw field.
DecodeItem_swapped(details) ==
    [item_id    |-> details.m_itemId,
     definition |-> details.m_iDefinition,
     quantity   |-> details.m_unFlags,
     flags      |-> details.m_unQuantity]

\* The closure of get_result_items that decodes one raw record.
DecodeItem(details) ==
    [item_id    |-> details.m_itemId,
     definition |-> details.m_iDefinition,
     quantity   |-> details.m_unQuantity,
     flags      |-> details.m_unFlags]

\* items_array.into_iter().map(..).collect()
DecodeAll(items_array) == [i \in 1 .. Len(items_array) |-> DecodeItem(items_array[i])]

\* The subsystem writes `recs` into the front of the caller's buffer.
FillBuffer(items_array, recs) ==
    [i \in 1 .. Len(items_array) |->
        IF i <= Len(recs) THEN recs[i] ELSE items_array[i]]

\* Thread t enters a public operation: its locals and call log start afresh.
Enter(t, name) ==
    /\ alive
    /\ pc[t] = "idle"
    /\ nOps < MaxOps
    /\ nOps' = nOps + 1
    /\ op' = [op EXCEPT ![t] = name]
    /\ attempts' = [attempts EXCEPT ![t] = 0]
    /\ items_count' = [items_count EXCEPT ![t] = 0]
    /\ items' = [items EXCEPT ![t] = << >>]

\* Thread t returns value v from its operation.
Return(t, v) ==
    /\ pc' = [pc EXCEPT ![t] = "idle"]
    /\ ret' = [ret EXCEPT ![t] = v]

\* Thread t issues subsystem call c.
Call(t, c) == calls' = [calls EXCEPT ![t] = Append(@, c)]

\* The subsystem sees a poll or fill call naming handle h.
UseHandle(h) == staleUse' = (staleUse \/ h \notin live)

\* ------------------------------------------------------- get_all_items
\* Mutant: the return value of the start call is not tested, and the handle
\* variable (still the sentinel on failure) is used as it is.
GetAllItems_ignoresFailure(t) ==
    /\ Enter(t, "get_all_items")
    /\ \E success \in BOOLEAN :
        IF success
        THEN /\ result_handle' = [result_handle EXCEPT ![t] = nextHandle]
             /\ nextHandle' = nextHandle + 1
             /\ live' = live \cup {nextHandle}
             /\ calls' = [calls EXCEPT ![t] =
                    << [fn |-> "GetAllItems", h |-> nextHandle, ok |-> TRUE] >>]
        ELSE /\ result_handle' =
                    [result_handle EXCEPT ![t] = k_SteamInventoryResultInvalid]
             /\ calls' = [calls EXCEPT ![t] =
                    << [fn |-> "GetAllItems", h |-> k_SteamInventoryResultInvalid,
                        ok |-> FALSE] >>]
             /\ UNCHANGED << nextHandle, live >>
    /\ pc' = [pc EXCEPT ![t] = "poll"]
    /\ ret' = [ret EXCEPT ![t] = NoRet]
    /\ UNCHANGED << alive, destroyCalls, staleUse, purchaseVars >>

\* get_all_items up to the return of request_all_items.
GetAllItems(t) ==
    /\ Enter(t, "get_all_items")
    /\ \E success \in BOOLEAN :
        IF success
        THEN /\ result_handle' = [result_handle EXCEPT ![t] = nextHandle]
             /\ nextHandle' = nextHandle + 1
             /\ live' = live \cup {nextHandle}
             /\ calls' = [calls EXCEPT ![t] =
                    << [fn |-> "GetAllItems", h |-> nextHandle, ok |-> TRUE] >>]
             /\ pc' = [pc EXCEPT ![t] = "poll"]
             /\ ret' = [ret EXCEPT ![t] = NoRet]
        ELSE /\ result_handle' =
                    [result_handle EXCEPT ![t] = k_SteamInventoryResultInvalid]
             /\ calls' = [calls EXCEPT ![t] =
                    << [fn |-> "GetAllItems", h |-> k_SteamInventoryResultInvalid,
                        ok |-> FALSE] >>]
             /\ Return(t, Err("OperationFailed"))
             /\ UNCHANGED << nextHandle, live >>
    /\ UNCHANGED << alive, destroyCalls, staleUse, purchaseVars >>

\* Mutant: the range written inclusively, `0..=MAX_ATTEMPTS`.
LoopRunning_inclusive(t) == attempts[t] <= MAX_ATTEMPTS

\* Mutant: the handle is released as soon as the status is OK, before
\* get_result_items reads it.
PollReady_releasesEarly(t) ==
    /\ pc[t] = "poll"
    /\ attempts[t] < MAX_ATTEMPTS
    /\ calls' = [calls EXCEPT ![t] =
            @ \o << [fn |-> "GetResultStatus", h |-> result_handle[t], ok |-> TRUE],
                    [fn |-> "DestroyResult", h |-> result_handle[t]] >>]
    /\ staleUse' = (staleUse \/ result_handle[t] \notin live)
    /\ live' = live \ {result_handle[t]}
    /\ destroyCalls' = [destroyCalls EXCEPT ![result_handle[t]] = @ + 1]
    /\ pc' = [pc EXCEPT ![t] = "size"]
    /\ UNCHANGED << alive, nOps, op, result_handle, attempts, items_count, items,
                    ret, nextHandle, purchaseVars >>

\* `for _ in 0..MAX_ATTEMPTS`: the loop has an iteration left.
LoopRunning(t) == attempts[t] < MAX_ATTEMPTS

\* One iteration of the polling loop whose status is OK: control passes to
\* get_result_items.
PollReady(t) ==
    /\ pc[t] = "poll"
    /\ LoopRunning(t)
    /\ Call(t, [fn |-> "GetResultStatus", h |-> result_handle[t], ok |-> TRUE])
    /\ UseHandle(result_handle[t])
    /\ pc' = [pc EXCEPT ![t] = "size"]
    /\ UNCHANGED << alive, nOps, op, result_handle, attempts, items_count, items,
                    ret, nextHandle, live, destroyCalls, purchaseVars >>

\* Mutant: the loop waits only while the status is Pending, so any other
\* status (a failure code) is taken for completion.
PollNotReady_failProceeds(t) ==
    /\ pc[t] = "poll"
    /\ LoopRunning(t)
    /\ \E status \in StatusCodes \ {"k_EResultOK"} :
        /\ Call(t, [fn |-> "GetResultStatus", h |-> result_handle[t],
                    ok |-> (status = "k_EResultOK")])
        /\ IF status = "k_EResultPending"
           THEN /\ attempts' = [attempts EXCEPT ![t] = @ + 1]
                /\ UNCHANGED pc
           ELSE /\ pc' = [pc EXCEPT ![t] = "size"]
                /\ UNCHANGED attempts
    /\ UseHandle(result_handle[t])
    /\ UNCHANGED << alive, nOps, op, result_handle, items_count, items,
                    ret, nextHandle, live, destroyCalls, purchaseVars >>

\* One iteration of the polling loop whose status is not OK, with the sleep
\* that follows it.
PollNotReady(t) ==
    /\ pc[t] = "poll"
    /\ LoopRunning(t)
    /\ \E status \in StatusCodes \ {"k_EResultOK"} :
        Call(t, [fn |-> "GetResultStatus", h |-> result_handle[t],
                 ok |-> (status = "k_EResultOK")])
    /\ UseHandle(result_handle[t])
    /\ attempts' = [attempts EXCEPT ![t] = @ + 1]
    /\ UNCHANGED << alive, nOps, pc, op, result_handle, items_count, items,
                    ret, nextHandle, live, destroyCalls, purchaseVars >>

\* Mutant: the timeout path releases the handle before returning.
PollTimeout_releases(t) ==
    /\ pc[t] = "poll"
    /\ ~LoopRunning(t)
    /\ Call(t, [fn |-> "DestroyResult", h |-> result_handle[t]])
    /\ staleUse' = (staleUse \/ result_handle[t] \notin live)
    /\ live' = live \ {result_handle[t]}
    /\ destroyCalls' = [destroyCalls EXCEPT ![result_handle[t]] = @ + 1]
    /\ Return(t, Err("Timeout"))
    /\ UNCHANGED << alive, nOps, op, result_handle, attempts, items_count, items,
                    nextHandle, purchaseVars >>

\* The polling loop ran out of attempts: wait_for_result_and_get_items
\* returns Err(Timeout), which get_all_items propagates with `?`.
PollTimeout(t) ==
    /\ pc[t] = "poll"
    /\ ~LoopRunning(t)
    /\ Return(t, Err("Timeout"))
    /\ UNCHANGED << alive, nOps, op, result_handle, attempts, items_count, items,
                    calls, sysVars, purchaseVars >>

\* Mutant: a failed phase-1 call is issued once more before the error is
\* returned.
SizeQuery_retries(t) ==
    /\ pc[t] = "size"
    /\ UseHandle(result_handle[t])
    /\ \E ok \in BOOLEAN, count \in 0 .. MaxItems :
        /\ Call(t, [fn |-> "GetResultItems", h |-> result_handle[t],
                    dest |-> "null", ok |-> ok,
                    count |-> IF ok THEN count ELSE 0, recs |-> << >>])
        /\ IF ok
           THEN /\ items_count' = [items_count EXCEPT ![t] = count]
                /\ pc' = [pc EXCEPT ![t] = "fill"]
                /\ UNCHANGED ret
           ELSE /\ count = 0
                /\ IF calls[t][Len(calls[t])].fn = "GetResultItems"
                   THEN Return(t, Err("GetResultItemsFailed"))
                   ELSE UNCHANGED << pc, ret >>
                /\ UNCHANGED items_count
    /\ UNCHANGED << alive, nOps, op, result_handle, attempts, items,
                    nextHandle, live, destroyCalls, purchaseVars >>

\* get_result_items, phase 1: the fill call with a null destination.
SizeQuery(t) ==
    /\ pc[t] = "size"
    /\ UseHandle(result_handle[t])
    /\ \E ok \in BOOLEAN, count \in 0 .. MaxItems :
        /\ Call(t, [fn |-> "GetResultItems", h |-> result_handle[t],
                    dest |-> "null", ok |-> ok,
                    count |-> IF ok THEN count ELSE 0, recs |-> << >>])
        /\ IF ok
           THEN /\ items_count' = [items_count EXCEPT ![t] = count]
                /\ pc' = [pc EXCEPT ![t] = "fill"]
                /\ UNCHANGED ret
           ELSE /\ count = 0
                /\ Return(t, Err("GetResultItemsFailed"))
                /\ UNCHANGED items_count
    /\ UNCHANGED << alive, nOps, op, result_handle, attempts, items,
                    nextHandle, live, destroyCalls, purchaseVars >>

\* Mutant: a zero count from phase 1 is treated as a failure.
Fill_zeroIsError(t) ==
    /\ pc[t] = "fill"
    /\ IF items_count[t] = 0
       THEN /\ Return(t, Err("GetResultItemsFailed"))
            /\ UNCHANGED << items_count, items, calls, staleUse >>
       ELSE /\ UseHandle(result_handle[t])
            /\ \E ok \in BOOLEAN, filled \in 0 .. items_count[t] :
                LET recs == RawItems(filled) IN
                /\ Call(t, [fn |-> "GetResultItems", h |-> result_handle[t],
                            dest |-> "buffer", ok |-> ok,
                            count |-> IF ok THEN Len(recs) ELSE 0,
                            recs |-> IF ok THEN recs ELSE << >>])
                /\ IF ok
                   THEN /\ items_count' = [items_count EXCEPT ![t] = Len(recs)]
                        /\ items' = [items EXCEPT ![t] =
                                DecodeAll(FillBuffer(ZeroedVec(items_count[t]), recs))]
                        /\ pc' = [pc EXCEPT ![t] = "destroy"]
                        /\ UNCHANGED ret
                   ELSE /\ filled = 0
                        /\ Return(t, Err("GetResultItemsFailed"))
                        /\ UNCHANGED << items_count, items >>
    /\ UNCHANGED << alive, nOps, op, result_handle, attempts,
                    nextHandle, live, destroyCalls, purchaseVars >>

\* get_result_items, phase 2: a zeroed buffer of items_count records is
\* handed to the fill call; on success every record of the buffer is decoded.
Fill(t) ==
    /\ pc[t] = "fill"
    /\ UseHandle(result_handle[t])
    /\ \E ok \in BOOLEAN, filled \in 0 .. items_count[t] :
        LET recs == RawItems(filled) IN
        /\ Call(t, [fn |-> "GetResultItems", h |-> result_handle[t],
                    dest |-> "buffer", ok |-> ok,
                    count |-> IF ok THEN Len(recs) ELSE 0,
                    recs |-> IF ok THEN recs ELSE << >>])
        /\ IF ok
           THEN /\ items_count' = [items_count EXCEPT ![t] = Len(recs)]
                /\ items' = [items EXCEPT ![t] =
                        DecodeAll(FillBuffer(ZeroedVec(items_count[t]), recs))]
                /\ pc' = [pc EXCEPT ![t] = "destroy"]
                /\ UNCHANGED ret
           ELSE /\ filled = 0
                /\ Return(t, Err("GetResultItemsFailed"))
                /\ UNCHANGED << items_count, items >>
    /\ UNCHANGED << alive, nOps, op, result_handle, attempts,
                    nextHandle, live, destroyCalls, purchaseVars >>

\* destroy_result: one DestroyResult call on handle h.
destroy_result(t, h) ==
    /\ Call(t, [fn |-> "DestroyResult", h |-> h])
    /\ staleUse' = (staleUse \/ h \notin live)
    /\ live' = live \ {h}
    /\ destroyCalls' = [destroyCalls EXCEPT ![h] = @ + 1]

\* Mutant: the handle to release is taken from state shared by all callers
\* (the handle obtained last) instead of the caller's own local.
GetAllItemsFinish_sharedHandle(t) ==
    /\ pc[t] = "destroy"
    /\ destroy_result(t, nextHandle - 1)
    /\ Return(t, Ok(items[t]))
    /\ UNCHANGED << alive, nOps, op, result_handle, attempts, items_count, items,
                    nextHandle, purchaseVars >>

\* The tail of get_all_items: destroy_result, then Ok(items).
GetAllItemsFinish(t) ==
    /\ pc[t] = "destroy"
    /\ destroy_result(t, result_handle[t])
    /\ Return(t, Ok(items[t]))
    /\ UNCHANGED << alive, nOps, op, result_handle, attempts, items_count, items,
                    nextHandle, purchaseVars >>

\* -------------------------------------------------------- consume_item
\* consume_item up to the return of internal_consume_item.
ConsumeItem(t) ==
    /\ Enter(t, "consume_item")
    /\ \E in \in ConsumeInputs, success \in BOOLEAN :
        IF success
        THEN /\ result_handle' = [result_handle EXCEPT ![t] = nextHandle]
             /\ nextHandle' = nextHandle + 1
             /\ live' = live \cup {nextHandle}
             /\ calls' = [calls EXCEPT ![t] =
                    << [fn |-> "ConsumeItem", h |-> nextHandle, ok |-> TRUE,
                        item_id |-> in.item_id, quantity |-> in.quantity] >>]
             /\ pc' = [pc EXCEPT ![t] = "consumed"]
             /\ ret' = [ret EXCEPT ![t] = NoRet]
        ELSE /\ result_handle' =
                    [result_handle EXCEPT ![t] = k_SteamInventoryResultInvalid]
             /\ calls' = [calls EXCEPT ![t] =
                    << [fn |-> "ConsumeItem", h |-> k_SteamInventoryResultInvalid,
                        ok |-> FALSE,
                        item_id |-> in.item_id, quantity |-> in.quantity] >>]
             /\ Return(t, Err("OperationFailed"))
             /\ UNCHANGED << nextHandle, live >>
    /\ UNCHANGED << alive, destroyCalls, staleUse, purchaseVars >>

\* Mutant: consume_item returns Ok(()) without releasing the handle.
ConsumeItemFinish_keepsHandle(t) ==
    /\ pc[t] = "consumed"
    /\ Return(t, Ok("()"))
    /\ UNCHANGED << alive, nOps, op, result_handle, attempts, items_count, items,
                    calls, sysVars, purchaseVars >>

\* The tail of consume_item: destroy_result, then Ok(()).
ConsumeItemFinish(t) ==
    /\ pc[t] = "consumed"
    /\ destroy_result(t, result_handle[t])
    /\ Return(t, Ok("()"))
    /\ UNCHANGED << alive, nOps, op, result_handle, attempts, items_count, items,
                    nextHandle, purchaseVars >>

\* ------------------------------------------------------ start_purchase
\* SteamError::from(sys::EResult) for the codes of RawResponses.
SteamErrorFrom(code) ==
    CASE code = "k_EResultFail" -> "Generic"
      [] code = "k_EResultNoConnection" -> "NoConnection"
      [] OTHER -> "Unreachable"

\* Mutant: the result code is inspected before the io_error flag.
PurchaseHandler_codeFirst(v, io_error) ==
    << IF v.m_result = "k_EResultOK"
       THEN Ok([order_id |-> v.m_ulOrderID, trans_id |-> v.m_ulTransID])
       ELSE IF io_error
            THEN Err("IOFailure")
            ELSE Err(SteamErrorFrom(v.m_result)) >>

\* The closure start_purchase registers: the invocations of cb it makes
\* when run with raw response v and the dispatcher's io_error flag.
PurchaseHandler(v, io_error) ==
    << IF io_error
       THEN Err("IOFailure")
       ELSE IF v.m_result = "k_EResultOK"
            THEN Ok([order_id |-> v.m_ulOrderID, trans_id |-> v.m_ulTransID])
            ELSE Err(SteamErrorFrom(v.m_result)) >>

\* Mutant: the empty-list branch lacks its `return`.
PurchaseContactsSubsystem_always(its) == TRUE

\* start_purchase reaches the subsystem's StartPurchase call.
PurchaseContactsSubsystem(its) == its # << >>

\* Mutant: an invalid call token is dropped without telling the caller.
PurchaseSyncCallbacks_silentOnInvalid(its, api_call) ==
    IF its = << >>
    THEN << Err("InvalidParameter") >>
    ELSE << >>

\* The invocations of cb start_purchase makes before it returns, given the
\* call token the subsystem returned (if it was asked).
PurchaseSyncCallbacks(its, api_call) ==
    IF its = << >>
    THEN << Err("InvalidParameter") >>
    ELSE IF api_call = k_uAPICallInvalid
         THEN << Err("InvalidParameter") >>
         ELSE << >>

\* Mutant: the closure is registered whatever the call token.
PurchaseRegisters_always(its, api_call) == its # << >>

\* start_purchase hands its closure to register_call_result.
PurchaseRegisters(its, api_call) ==
    /\ its # << >>
    /\ api_call # k_uAPICallInvalid

\* Mutant: start_purchase also polls the call token as if it were a result
\* handle.
PurchaseCalls_polls(its, api_call) ==
    IF PurchaseContactsSubsystem(its)
    THEN << [fn |-> "StartPurchase",
             item_defs |-> [i \in 1 .. Len(its) |-> its[i].def],
             quantities |-> [i \in 1 .. Len(its) |-> its[i].quantity],
             count |-> Len(its),
             api_call |-> api_call],
            [fn |-> "GetResultStatus", h |-> api_call, ok |-> FALSE] >>
    ELSE << >>

\* The subsystem calls start_purchase makes: none for an empty list, else the
\* one StartPurchase call with the unzipped definitions and quantities.
PurchaseCalls(its, api_call) ==
    IF PurchaseContactsSubsystem(its)
    THEN << [fn |-> "StartPurchase",
             item_defs |-> [i \in 1 .. Len(its) |-> its[i].def],
             quantities |-> [i \in 1 .. Len(its) |-> its[i].quantity],
             count |-> Len(its),
             api_call |-> api_call] >>
    ELSE << >>

\* The whole of start_purchase(items, cb); the new call is purchase p.
\* Call tokens are fresh: the p-th call gets token p when the subsystem
\* accepts it.
StartPurchase(t) ==
    /\ Enter(t, "start_purchase")
    /\ \E its \in PurchaseInputs, accepted \in BOOLEAN :
        LET p == Len(purchases) + 1
            asked == PurchaseContactsSubsystem(its)
            api_call == IF asked /\ accepted THEN p ELSE k_uAPICallInvalid
            registers == PurchaseRegisters(its, api_call)
        IN  /\ ~asked => accepted
            /\ calls' = [calls EXCEPT ![t] = PurchaseCalls(its, api_call)]
            /\ purchases' = Append(purchases,
                    [caller |-> t,
                     items |-> its,
                     sys_calls |-> IF asked THEN 1 ELSE 0,
                     api_call |-> api_call,
                     registered |-> registers,
                     cb |-> PurchaseSyncCallbacks(its, api_call),
                     fired |-> << >>])
            /\ call_results' =
                    IF registers
                    THEN call_results \cup
                            { [api_call |-> api_call,
                               callback_id |-> CALLBACK_BASE_ID + 1,
                               purchase |-> p] }
                    ELSE call_results
    /\ result_handle' = [result_handle EXCEPT ![t] = k_SteamInventoryResultInvalid]
    /\ Return(t, [kind |-> "Unit"])
    /\ UNCHANGED << alive, sysVars >>

\* The callback dispatcher delivers the result of a registered call: the
\* handler is taken out of the table and run once.
CallResult ==
    /\ \E r \in call_results, v \in RawResponses, io_error \in BOOLEAN :
        /\ call_results' = call_results \ {r}
        /\ purchases' = [purchases EXCEPT ![r.purchase] =
                [@ EXCEPT !.cb = @ \o PurchaseHandler(v, io_error),
                          !.fired = Append(@, [v |-> v, io_error |-> io_error])]]
    /\ UNCHANGED << alive, nOps, threadVars, sysVars >>

\* ------------------------------------------------------------ teardown
\* The Inventory value is dropped. The struct holds a raw pointer and an
\* Arc; it has no Drop implementation and keeps no set of handles, so no
\* subsystem call is made.
Teardown ==
    /\ alive
    /\ \A t \in Threads : pc[t] = "idle"
    /\ alive' = FALSE
    /\ UNCHANGED << nOps, threadVars, sysVars, purchaseVars >>

\* ---------------------------------------------------------------- spec
Next ==
    \/ \E t \in Callers : GetAllItems(t)
    \/ \E t \in Callers : PollReady(t)
    \/ \E t \in Callers : PollNotReady(t)
    \/ \E t \in Callers : PollTimeout(t)
    \/ \E t \in Callers : SizeQuery(t)
    \/ \E t \in Callers : Fill(t)
    \/ \E t \in Callers : GetAllItemsFinish(t)
    \/ \E t \in Callers : ConsumeItem(t)
    \/ \E t \in Callers : ConsumeItemFinish(t)
    \/ \E t \in Callers : StartPurchase(t)
    \/ CallResult
    \/ Teardown

Spec == Init /\ [][Next]_vars

\* ------------------------------------------------- concurrent callers
\* PollReady under a subsystem that reports OK within ReadyBy polls.
ConcPollReady(t) ==
    /\ attempts[t] < ReadyBy
    /\ PollReady(t)

\* Every thread calls get_all_items on the shared Inventory (`&self`); the
\* steps of different calls interleave freely.
ConcNext ==
    \/ \E t \in Threads : GetAllItems(t)
    \/ \E t \in Threads : ConcPollReady(t)
    \/ \E t \in Threads : PollNotReady(t)
    \/ \E t \in Threads : PollTimeout(t)
    \/ \E t \in Threads : SizeQuery(t)
    \/ \E t \in Threads : Fill(t)
    \/ \E t \in Threads : GetAllItemsFinish(t)

ConcSpec == Init /\ [][ConcNext]_vars

\* ------------------------------------------------------------ the claims
\* Positions in thread t's call log of the calls to subsystem function f.
CallsTo(t, f) == { i \in DOMAIN calls[t] : calls[t][i].fn = f }
Polls(t) == Cardinality(CallsTo(t, "GetResultStatus"))
Fills(t) == Cardinality(CallsTo(t, "GetResultItems"))
Destroys(t) == Cardinality(CallsTo(t, "DestroyResult"))

\* Thread t has returned from operation `name`.
Returned(t, name) == op[t] = name /\ pc[t] = "idle"

\* Handles the subsystem has handed out.
Issued == 1 .. (nextHandle - 1)

\* Steps a running operation of thread t has left at most.
Rank(t) ==
    CASE pc[t] = "poll" -> 4 + (MAX_ATTEMPTS - Polls(t))
      [] pc[t] = "size" -> 3
      [] pc[t] = "fill" -> 2
      [] pc[t] = "destroy" -> 1
      [] pc[t] = "consumed" -> 1
      [] OTHER -> 0

\* C1: when get_all_items returns GetResultItemsFailed, the handle it obtained
\* has been released by exactly one DestroyResult call.
C1_FillFailureReleasesHandle ==
    \A t \in Threads :
        (Returned(t, "get_all_items") /\ ret[t] = Err("GetResultItemsFailed"))
            => /\ destroyCalls[result_handle[t]] = 1
               /\ result_handle[t] \notin live

\* C2: the list a successful get_all_items returns is as long as the count the
\* phase-2 fill call reported.
C2_LengthIsPhase2Count ==
    \A t \in Threads :
        (Returned(t, "get_all_items") /\ ret[t].kind = "Ok")
            => \A i \in CallsTo(t, "GetResultItems") :
                    calls[t][i].dest = "buffer"
                        => Len(ret[t].value) = calls[t][i].count

\* C3: one request never issues more than MAX_ATTEMPTS polls; it returns
\* Timeout exactly after MAX_ATTEMPTS polls none of which reported OK; and
\* every step of a running operation takes it closer to its return, so
\* get_all_items terminates.
C3_PollBudget ==
    \A t \in Threads :
        /\ Polls(t) <= MAX_ATTEMPTS
        /\ (Returned(t, "get_all_items") /\ ret[t] = Err("Timeout"))
            => /\ Polls(t) = MAX_ATTEMPTS
               /\ \A i \in CallsTo(t, "GetResultStatus") : ~calls[t][i].ok
        /\ (pc[t] = "poll" /\ Polls(t) = MAX_ATTEMPTS)
            => \A i \in CallsTo(t, "GetResultStatus") : ~calls[t][i].ok

C3_Progress ==
    \A t \in Threads :
        pc[t] # "idle"
            => \/ UNCHANGED << pc[t], calls[t], ret[t] >>
               \/ /\ Rank(t)' < Rank(t)
                  /\ (pc[t] = "poll" /\ Polls(t) = MAX_ATTEMPTS)
                        => (pc'[t] = "idle" /\ ret'[t] = Err("Timeout")
                            /\ calls'[t] = calls[t])

C3_PollingBounded == [] C3_PollBudget /\ [][C3_Progress]_vars

C3_Witness ==
    \E t \in Threads :
        /\ Returned(t, "get_all_items")
        /\ ret[t] = Err("Timeout")
        /\ Polls(t) = MAX_ATTEMPTS

\* C4: once the Inventory value is torn down, every handle that was obtained
\* has been released by exactly one DestroyResult call.
C4_TeardownReleasesPending ==
    ~alive => \A h \in Issued : destroyCalls[h] = 1 /\ h \notin live

C7_Expected(raw) ==
    [item_id |-> raw.m_itemId, definition |-> raw.m_iDefinition,
     quantity |-> raw.m_unQuantity, flags |-> raw.m_unFlags]

\* C7: a successful get_all_items has called, in this order and on one
\* handle, GetAllItems, GetResultStatus one or more times (only the last
\* reporting OK), GetResultItems with a null destination, GetResultItems with
\* a buffer, DestroyResult; the records the subsystem filled are returned in
\* the order filled, field by field; the handle got one DestroyResult call.
C7_SuccessOrder ==
    \A t \in Threads :
        (Returned(t, "get_all_items") /\ ret[t].kind = "Ok")
            => LET c == calls[t]
                   n == Len(c)
                   h == result_handle[t]
               IN  /\ n >= 5
                   /\ c[1].fn = "GetAllItems" /\ c[1].ok
                   /\ \A i \in 2 .. (n - 3) :
                        /\ c[i].fn = "GetResultStatus"
                        /\ c[i].ok <=> (i = n - 3)
                   /\ c[n - 2].fn = "GetResultItems"
                   /\ c[n - 2].dest = "null" /\ c[n - 2].ok
                   /\ c[n - 1].fn = "GetResultItems"
                   /\ c[n - 1].dest = "buffer" /\ c[n - 1].ok
                   /\ c[n].fn = "DestroyResult"
                   /\ \A i \in 1 .. n : c[i].h = h
                   /\ h # k_SteamInventoryResultInvalid
                   /\ destroyCalls[h] = 1
                   /\ Len(ret[t].value) >= Len(c[n - 1].recs)
                   /\ \A i \in 1 .. Len(c[n - 1].recs) :
                        ret[t].value[i] = C7_Expected(c[n - 1].recs[i])

C7_Witness ==
    \E t \in Threads :
        /\ Returned(t, "get_all_items")
        /\ ret[t].kind = "Ok"
        /\ Polls(t) = 2
        /\ Len(ret[t].value) = 2
        /\ ret[t].value[1] # ret[t].value[2]
        /\ calls[t][Len(calls[t]) - 1].count = 2

\* C8: a start_purchase call with an empty item list has invoked cb once,
\* with InvalidParameter, by the time it returns; it has made no subsystem
\* call and registered no handler.
C8_EmptyPurchaseFailsSynchronously ==
    \A p \in DOMAIN purchases :
        purchases[p].items = << >>
            => /\ purchases[p].cb = << Err("InvalidParameter") >>
               /\ purchases[p].sys_calls = 0
               /\ ~purchases[p].registered
               /\ \A r \in call_results : r.purchase # p
               /\ (p = Len(purchases) /\ Returned(purchases[p].caller, "start_purchase"))
                    => calls[purchases[p].caller] = << >>

C8_Witness ==
    \E p \in DOMAIN purchases :
        /\ purchases[p].items = << >>
        /\ p = Len(purchases)
        /\ Returned(purchases[p].caller, "start_purchase")

\* C9: cb of a start_purchase call is invoked at most once, on every branch;
\* and exactly once when the call token was valid and the dispatcher has
\* fired the registered handler.
C9_CallbackAtMostOnce ==
    \A p \in DOMAIN purchases :
        /\ Len(purchases[p].cb) <= 1
        /\ (purchases[p].api_call # k_uAPICallInvalid /\ Len(purchases[p].fired) = 1)
            => Len(purchases[p].cb) = 1
        /\ (\E r \in call_results : r.purchase = p) => purchases[p].cb = << >>

C9_Witness ==
    /\ Len(purchases) = 2
    /\ purchases[1].api_call # k_uAPICallInvalid
    /\ Len(purchases[1].fired) = 1
    /\ Len(purchases[1].cb) = 1
    /\ purchases[2].items # << >>
    /\ purchases[2].api_call = k_uAPICallInvalid
    /\ Len(purchases[2].cb) = 1

\* The outcome the claim prescribes for raw response v and flag io_error.
C10_Expected(v, io_error) ==
    IF io_error
    THEN Err("IOFailure")
    ELSE IF v.m_result = "k_EResultOK"
         THEN Ok([order_id |-> v.m_ulOrderID, trans_id |-> v.m_ulTransID])
         ELSE Err(SteamErrorFrom(v.m_result))

\* C10: the outcome passed to cb by the registered handler is IOFailure when
\* the io_error flag is set, whatever the result code; otherwise the order
\* and transaction ids of the raw response when its code is OK; otherwise the
\* typed error of that code.
C10_HandlerOutcome ==
    \A p \in DOMAIN purchases :
        purchases[p].registered
            => /\ Len(purchases[p].cb) = Len(purchases[p].fired)
               /\ \A i \in DOMAIN purchases[p].fired :
                    purchases[p].cb[i] =
                        C10_Expected(purchases[p].fired[i].v,
                                     purchases[p].fired[i].io_error)

C10_Witness ==
    \E p, q \in DOMAIN purchases :
        /\ purchases[p].fired # << >>
        /\ purchases[p].fired[1].io_error
        /\ purchases[p].fired[1].v.m_result = "k_EResultOK"
        /\ purchases[p].cb = << Err("IOFailure") >>
        /\ purchases[q].fired # << >>
        /\ ~purchases[q].fired[1].io_error
        /\ purchases[q].cb = << Ok([order_id |-> 555, trans_id |-> 999]) >>


\* C11: consume_item returns OperationFailed exactly when the subsystem
\* rejected the ConsumeItem call, and has then issued no DestroyResult call;
\* when the subsystem accepted, consume_item returns Ok(()) after exactly one
\* DestroyResult call on the handle the subsystem yielded.
C11_ConsumeReleasesHandle ==
    \A t \in Threads :
        /\ Returned(t, "consume_item")
            => LET c == calls[t]
                   h == result_handle[t]
               IN  /\ Len(c) >= 1
                   /\ c[1].fn = "ConsumeItem"
                   /\ (ret[t] = Err("OperationFailed")) <=> ~c[1].ok
                   /\ ~c[1].ok => (Len(c) = 1 /\ Destroys(t) = 0)
                   /\ c[1].ok
                        => /\ ret[t] = Ok("()")
                           /\ c = << c[1], [fn |-> "DestroyResult", h |-> c[1].h] >>
                           /\ h = c[1].h
                           /\ destroyCalls[h] = 1
                           /\ h \notin live
        /\ (op[t] = "consume_item" /\ pc[t] # "idle")
            => (ret[t] = NoRet /\ Destroys(t) = 0)

C11_Witness ==
    \E t \in Threads :
        /\ Returned(t, "consume_item")
        /\ ret[t] = Ok("()")
        /\ destroyCalls[result_handle[t]] = 1
        /\ \E h \in Issued \ {result_handle[t]} : TRUE


\* Thread t is inside get_all_items and holds a handle.
Running(t) == op[t] = "get_all_items" /\ pc[t] # "idle"

\* What one call can observe or return: its locals, its call log, its return
\* value, and the subsystem's state of its handle.
C12_View(t) ==
    << pc[t], op[t], result_handle[t], attempts[t], items_count[t], items[t],
       ret[t], calls[t],
       result_handle[t] \in live,
       IF result_handle[t] \in Handles THEN destroyCalls[result_handle[t]] ELSE 0 >>

C12_OwnHandleOnly ==
    /\ \A t \in Threads :
        op[t] = "get_all_items"
            => \A i \in DOMAIN calls[t] : calls[t][i].h = result_handle[t]
    /\ \A t, u \in Threads :
        (t # u /\ Running(t) /\ Running(u)) => result_handle[t] # result_handle[u]
    /\ \A h \in Handles : destroyCalls[h] <= 1
    /\ ~staleUse

C12_Independent ==
    \A t, u \in Threads :
        (t # u /\ << pc[u], calls[u], ret[u] >>' # << pc[u], calls[u], ret[u] >>)
            => C12_View(t)' = C12_View(t)

\* C12: when get_all_items calls run concurrently, every poll, fill and
\* destroy call of a call names that call's own handle, concurrent calls hold
\* distinct handles, no handle is destroyed twice or used after its release,
\* and a step of one call changes nothing another call observes or returns.
C12_ConcurrentCallsIsolated == [] C12_OwnHandleOnly /\ [][C12_Independent]_vars

C12_Witness ==
    /\ pc[1] = "destroy"
    /\ pc[2] = "fill"
    /\ attempts[1] > 0
    /\ result_handle[1] = 2
    /\ result_handle[2] = 1


\* Thread t's phase-1 fill call reported success with count 0.
C13_ZeroCount(t) ==
    \E i \in CallsTo(t, "GetResultItems") :
        calls[t][i].dest = "null" /\ calls[t][i].ok /\ calls[t][i].count = 0

\* C13: a phase-1 count of 0 is not an error. get_all_items goes on to the
\* phase-2 fill call with an empty buffer; when that call reports success the
\* result is Ok with an empty list and the handle has been released once; an
\* error is returned only when the phase-2 call itself reports failure.
C13_ZeroItemsIsOk ==
    \A t \in Threads :
        (Returned(t, "get_all_items") /\ C13_ZeroCount(t))
            => \E i \in CallsTo(t, "GetResultItems") :
                /\ calls[t][i].dest = "buffer"
                /\ IF calls[t][i].ok
                   THEN /\ ret[t] = Ok(<< >>)
                        /\ destroyCalls[result_handle[t]] = 1
                        /\ result_handle[t] \notin live
                   ELSE ret[t] = Err("GetResultItemsFailed")

C13_Witness ==
    \E t \in Threads :
        /\ Returned(t, "get_all_items")
        /\ C13_ZeroCount(t)
        /\ ret[t] = Ok(<< >>)
        /\ result_handle[t] \notin live


\* The subsystem functions that take a result handle as an argument.
HandleConsumers == {"GetResultStatus", "GetResultItems", "DestroyResult"}

\* C14: no poll, fill or destroy call names the invalid sentinel; when the
\* subsystem reports start failure, get_all_items returns OperationFailed and
\* its only subsystem call is the failed start call.
C14_SentinelNeverUsed ==
    \A t \in Threads :
        /\ \A i \in DOMAIN calls[t] :
            calls[t][i].fn \in HandleConsumers
                => /\ calls[t][i].h # k_SteamInventoryResultInvalid
                   /\ calls[t][i].h \in Issued
        /\ (op[t] = "get_all_items" /\ ~calls[t][1].ok)
            => /\ pc[t] = "idle"
               /\ ret[t] = Err("OperationFailed")
               /\ Len(calls[t]) = 1
               /\ result_handle[t] = k_SteamInventoryResultInvalid

C14_Witness ==
    \E t \in Threads :
        /\ Returned(t, "get_all_items")
        /\ ret[t] = Err("OperationFailed")
        /\ result_handle[t] = k_SteamInventoryResultInvalid
        /\ nextHandle > 1


\* C15: from the step in which the subsystem hands out a handle to
\* get_all_items until the handle is released, the handle is a member of the
\* pending handle set.
C15_RegisteredUntilReleased ==
    \A t \in Threads :
        (op[t] = "get_all_items" /\ result_handle[t] \in live)
            => result_handle[t] \in PendingHandleSet


C16_OnlyStartPurchaseCalled ==
    \A t \in Threads :
        Returned(t, "start_purchase")
            => /\ Len(calls[t]) <= 1
               /\ \A i \in DOMAIN calls[t] : calls[t][i].fn = "StartPurchase"

C16_HandlesUntouched ==
    purchases' # purchases
        => /\ UNCHANGED << nextHandle, live, destroyCalls, staleUse >>
           /\ PendingHandleSet' = PendingHandleSet
           /\ Len(purchases') = Len(purchases) => UNCHANGED calls

\* C16: start_purchase, on every branch, and its completion handler issue no
\* poll, fill or destroy call and leave the handles (those outstanding in the
\* subsystem and those the Inventory tracks) as they were; the only subsystem
\* call of start_purchase is StartPurchase.
C16_PurchaseLeavesHandlesAlone ==
    [] C16_OnlyStartPurchaseCalled /\ [][C16_HandlesUntouched]_vars

C16_Witness ==
    \E t \in Threads :
        /\ Returned(t, "start_purchase")
        /\ Len(calls[t]) = 1
        /\ live # {}
        /\ purchases[Len(purchases)].fired # << >>


\* The start_purchase call p got the invalid call token from the subsystem.
C17_InvalidToken(p) ==
    /\ purchases[p].items # << >>
    /\ purchases[p].sys_calls = 1
    /\ purchases[p].api_call = k_uAPICallInvalid

\* C17: on an invalid call token start_purchase has invoked cb with
\* InvalidParameter by the time it returns and registers no handler; a
\* handler is registered exactly for a valid call token; and cb has been
\* invoked before any handler fired exactly in the two cases empty list and
\* invalid call token.
C17_InvalidTokenFailsSynchronously ==
    \A p \in DOMAIN purchases :
        /\ C17_InvalidToken(p)
            => /\ purchases[p].cb = << Err("InvalidParameter") >>
               /\ ~purchases[p].registered
               /\ purchases[p].fired = << >>
               /\ \A r \in call_results : r.purchase # p
        /\ purchases[p].registered
            <=> (purchases[p].items # << >> /\ purchases[p].api_call # k_uAPICallInvalid)
        /\ (\E r \in call_results : r.purchase = p)
            => (purchases[p].registered /\ purchases[p].fired = << >>)
        /\ purchases[p].fired = << >>
            => (purchases[p].cb # << >>
                    <=> (purchases[p].items = << >> \/ C17_InvalidToken(p)))

C17_Witness ==
    \E p \in DOMAIN purchases :
        /\ C17_InvalidToken(p)
        /\ purchases[p].cb = << Err("InvalidParameter") >>
        /\ Returned(purchases[p].caller, "start_purchase")


\* C18: within get_all_items a fill call is issued only after a poll of the
\* same handle reported OK, the phase-1 call directly after it; the first OK
\* is the last poll, so the number of polls is the index of the first OK
\* attempt.
C18_FillRightAfterFirstOk ==
    \A t \in Threads :
        op[t] = "get_all_items"
            => LET c == calls[t] IN
               /\ \A i \in CallsTo(t, "GetResultItems") :
                    /\ \E j \in 1 .. (i - 1) :
                        /\ c[j].fn = "GetResultStatus"
                        /\ c[j].ok
                        /\ c[j].h = c[i].h
                    /\ c[i].dest = "null"
                        => (c[i - 1].fn = "GetResultStatus" /\ c[i - 1].ok)
                    /\ c[i].dest = "buffer"
                        => (c[i - 1].fn = "GetResultItems" /\ c[i - 1].dest = "null")
               /\ \A i \in CallsTo(t, "GetResultStatus") :
                    c[i].ok
                        => /\ \A j \in CallsTo(t, "GetResultStatus") : j <= i
                           /\ \A j \in 2 .. (i - 1) :
                                c[j].fn = "GetResultStatus" /\ ~c[j].ok
                           /\ Polls(t) = i - 1
                           /\ attempts[t] = i - 2
               /\ pc[t] = "size"
                    => (c[Len(c)].fn = "GetResultStatus" /\ c[Len(c)].ok)

C18_Witness ==
    \E t \in Threads :
        /\ Returned(t, "get_all_items")
        /\ ret[t].kind = "Ok"
        /\ Polls(t) = 3
        /\ Fills(t) = 2
        /\ ~calls[t][2].ok
        /\ calls[t][4].ok


\* C19: one get_all_items invocation issues exactly one start-query call, at
\* most one phase-1 and at most one phase-2 fill call; a failure of any of
\* them is the last call of the invocation and is returned as its typed
\* error.
C19_NoRetries ==
    \A t \in Threads :
        op[t] = "get_all_items"
            => LET c == calls[t]
                   Phase(d) == {i \in CallsTo(t, "GetResultItems") : c[i].dest = d}
               IN
               /\ CallsTo(t, "GetAllItems") = {1}
               /\ Cardinality(Phase("null")) <= 1
               /\ Cardinality(Phase("buffer")) <= 1
               /\ \A i \in CallsTo(t, "GetAllItems") \cup CallsTo(t, "GetResultItems") :
                    ~c[i].ok
                        => /\ i = Len(c)
                           /\ pc[t] = "idle"
                           /\ ret[t] = IF c[i].fn = "GetAllItems"
                                       THEN Err("OperationFailed")
                                       ELSE Err("GetResultItemsFailed")

C19_Witness ==
    \E t \in Threads :
        LET c == calls[t] IN
        /\ Returned(t, "get_all_items")
        /\ ret[t] = Err("GetResultItemsFailed")
        /\ Fills(t) = 2
        /\ c[Len(c)].fn = "GetResultItems"
        /\ c[Len(c)].dest = "buffer"
        /\ ~c[Len(c)].ok

====
